---- MODULE Spec2Model ----
(***************************************************************************)
(* Purchase transaction and PayPal relay of the IliganMart backend         *)
(* (src/db.js).  A request handler is an async function: the code between  *)
(* two awaits runs without interleaving, so every action below is the      *)
(* completion of one awaited call together with the synchronous code that  *)
(* follows it up to the next await (or to the end of the handler,          *)
(* including the finally block).                                           *)
(*                                                                         *)
(* The ledger store is PostgreSQL seen through one pooled client per       *)
(* request: BEGIN opens a transaction whose writes stay private until      *)
(* COMMIT, SELECT ... FOR UPDATE and UPDATE take the row lock of the       *)
(* product, the lock is held until the transaction ends, and a statement   *)
(* that fails aborts the transaction (nothing of it is committed).         *)
(***************************************************************************)
EXTENDS Integers, Sequences, FiniteSets, TLC

(* ------------------------------ bounds --------------------------------- *)
\* concurrent purchase requests in flight
NumReq == 2
\* largest initial stock of a product
MaxStock == 2
\* store faults (failed statement, lost connection, failed connect) per run
MaxFaults == 1
\* connections the pool hands out at the same time
PoolMax == 2
\* payment requests in flight
NumPay == 2

(* --------------------------- JSON / JS values -------------------------- *)
\* A JSON value of a request body: t is its type, n its number or boolean
\* (1/0), s its string as a sequence of characters.
JUndefined == [t |-> "undefined", n |-> 0, s |-> <<>>]
JNull == [t |-> "null", n |-> 0, s |-> <<>>]
JNum(k) == [t |-> "number", n |-> k, s |-> <<>>]
JStr(str) == [t |-> "string", n |-> 0, s |-> str]
JTrue == [t |-> "boolean", n |-> 1, s |-> <<>>]
\* the result of Number(): a number or NaN
NaN == [nan |-> TRUE, n |-> 0]
Num(k) == [nan |-> FALSE, n |-> k]

IsSpace(c) == c = " "

RECURSIVE TrimLeft(_)
TrimLeft(str) ==
    IF str # <<>> /\ IsSpace(Head(str)) THEN TrimLeft(Tail(str)) ELSE str

RECURSIVE TrimRight(_)
TrimRight(str) ==
    IF str # <<>> /\ IsSpace(str[Len(str)])
    THEN TrimRight(SubSeq(str, 1, Len(str) - 1))
    ELSE str

\* String.prototype.trim
Trim(str) == TrimRight(TrimLeft(str))

LowerChar(c) == IF c = "A" THEN "a" ELSE IF c = "B" THEN "b" ELSE c

\* String.prototype.toLowerCase
ToLowerCase(str) == [i \in 1..Len(str) |-> LowerChar(str[i])]

DigitValue(c) ==
    CASE c = "0" -> 0 [] c = "1" -> 1 [] c = "2" -> 2 [] c = "3" -> 3
      [] c = "4" -> 4 [] c = "5" -> 5 [] c = "6" -> 6 [] c = "7" -> 7
      [] c = "8" -> 8 [] c = "9" -> 9 [] OTHER -> -1

RECURSIVE DigitsValue(_)
\* value of a string of decimal digits, -1 when a character is no digit
DigitsValue(str) ==
    IF str = <<>> THEN 0
    ELSE LET d == DigitValue(str[Len(str)])
             rest == DigitsValue(SubSeq(str, 1, Len(str) - 1))
         IN IF d < 0 \/ rest < 0 THEN -1 ELSE 10 * rest + d

\* Number(string): blank is 0, an optionally signed integer literal is its
\* value, anything else NaN
StringToNumber(str) ==
    LET t == Trim(str)
    IN IF t = <<>> THEN Num(0)
       ELSE IF Head(t) = "-"
            THEN IF Len(t) > 1 /\ DigitsValue(Tail(t)) >= 0
                 THEN Num(0 - DigitsValue(Tail(t))) ELSE NaN
            ELSE IF DigitsValue(t) >= 0 THEN Num(DigitsValue(t)) ELSE NaN

\* Number(v)
Number(v) ==
    CASE v.t = "undefined" -> NaN
      [] v.t = "null" -> Num(0)
      [] v.t = "number" -> Num(v.n)
      [] v.t = "boolean" -> Num(v.n)
      [] v.t = "string" -> StringToNumber(v.s)

\* JS truthiness of a JSON value
Truthy(v) ==
    CASE v.t = "undefined" -> FALSE
      [] v.t = "null" -> FALSE
      [] v.t = "number" -> v.n # 0
      [] v.t = "boolean" -> v.n # 0
      [] v.t = "string" -> v.s # <<>>

\* !x for the result of Number(): NaN and 0 are falsy
FalsyNumber(x) == x.nan \/ x.n = 0

(* ------------------------------ ledger --------------------------------- *)
\* ids of the rows of the products table
Products == {1, 2}
\* unit price of each product, in centavos (price NUMERIC(12,2))
PriceCents == <<10000, 1999>>

\* no Order row
NoOrder ==
    [id |-> 0, product_id |-> 0, buyer_email |-> <<>>, quantity |-> 0,
     total_price |-> 0, req |-> 0]
\* prodRes.rows is empty
NoRow == [stock |-> -1, price |-> -1]
\* the request has not been answered
NoResp == [status |-> 0, error |-> "", remainingStock |-> -1, order |-> NoOrder]
\* a session outside any transaction
NoTx == [state |-> "none", wpid |-> 0, wstock |-> 0, worder |-> NoOrder]

VARIABLES
    pc,         \* per request: the awaited call, "idle" before arrival, "done" after
    body,       \* per request: req.body
    client,     \* per request: "none", "held" or "released" pooled client
    fault,      \* per request: the store fault it met: "none", "refused" (connect),
                \* "rejected" (a statement) or "lost" (the connection broke)
    prod,       \* per request: prodRes.rows[0] of the locking read
    orderRes,   \* per request: orderRes.rows[0] of the INSERT
    tx,         \* per request: the session's transaction and its private writes
    lock,       \* per product: the request whose transaction holds the row lock, 0 if none
    stock,      \* per product: committed products.stock
    price,      \* per product: products.price in centavos
    orders,     \* committed rows of the orders table, in commit order
    orderSeq,   \* last value of the orders id sequence
    resp,       \* per request: the response sent
    inUse,      \* clients checked out of the pool
    faults,     \* store faults so far
    initStock,  \* per product: the stock before any request
    pay,        \* per payment request: its state (see the payment section)
    credentials \* PAYPAL_CLIENT_ID and PAYPAL_CLIENT_SECRET are both set

ledgerVars ==
    <<pc, body, client, fault, prod, orderRes, tx, lock, stock, price, orders,
      orderSeq, resp, inUse, faults, initStock>>
payVars == <<pay, credentials>>
vars == <<ledgerVars, payVars>>

\* the purchase requests of the run
Reqs == DOMAIN pc

(* ----------------------- purchase: pure parts -------------------------- *)
\* const qty = Number(quantity || 1)
Qty(b) == Number(IF Truthy(b.quantity) THEN b.quantity ELSE JNum(1))

\* const email = (buyerEmail || '').trim().toLowerCase()
Email(b) ==
    ToLowerCase(Trim(IF Truthy(b.buyerEmail) THEN b.buyerEmail.s ELSE <<>>))

\* !productId || !email || !qty || qty <= 0
MissingFields(b) ==
    \/ ~Truthy(b.productId)
    \/ Email(b) = <<>>
    \/ FalsyNumber(Qty(b))
    \/ Qty(b).n <= 0

\* the stock check off by one: a request for exactly the stock is refused
InsufficientStockOffByOne(s, q) == s <= q

\* the stock check too lax: a request for one more than the stock passes
InsufficientStockLax(s, q) == s < q - 1

\* prod.stock < qty
InsufficientStock(s, q) == s < q

\* the stock written back without the decrement
NewStockNoDecrement(s, q) == s

\* const newStock = prod.stock - qty
NewStock(s, q) == s - q

\* the total without the quantity
TotalUnitPrice(p, q) == p

\* const total = Number(prod.price) * qty; stored as NUMERIC(12,2), which for
\* a price of two decimals and an integer quantity is the exact product
Total(p, q) == p * q

\* res.status(400).json({ error: 'Missing required fields' })
MissingFieldsResponse ==
    [NoResp EXCEPT !.status = 400, !.error = "Missing required fields"]

\* a missing product reported as a bad request
NotFoundAsBadRequest == [NoResp EXCEPT !.status = 400, !.error = "Product not found"]

\* res.status(404).json({ error: 'Product not found' })
NotFoundResponse == [NoResp EXCEPT !.status = 404, !.error = "Product not found"]

\* res.status(400).json({ error: 'Insufficient stock' })
InsufficientStockResponse ==
    [NoResp EXCEPT !.status = 400, !.error = "Insufficient stock"]

\* res.status(500).json({ error: 'Purchase failed', details })
PurchaseFailedResponse == [NoResp EXCEPT !.status = 500, !.error = "Purchase failed"]

\* res.status(201).json({ success: true, order, remainingStock: newStock })
CreatedResponse(row, newStock) ==
    [status |-> 201, error |-> "", remainingStock |-> newStock, order |-> row]

\* the product read without its locking clause
NoForUpdate == FALSE

\* the locking clause of the product read: SELECT ... FOR UPDATE
ForUpdate == TRUE

\* the statements run without BEGIN, each committing on its own
TxWithoutBegin == "none"

\* the session state after client.query('BEGIN')
TxAfterBegin == "open"

(* ------------------------ purchase: the store -------------------------- *)
\* row locks that make nobody wait
RowLockedByOtherNever(p, r) == FALSE

\* a lock on the whole products table in place of the row lock
TableLockedByOther(p, r) == \E q \in Products : lock[q] # 0 /\ lock[q] # r

\* another transaction holds the row lock of product p
RowLockedByOther(p, r) == lock[p] # 0 /\ lock[p] # r

\* the locks after the transaction of r ends (commit, rollback or abort)
Unlocked(r) == [p \in Products |-> IF lock[p] = r THEN 0 ELSE lock[p]]

\* the value of products.stock that the session of r sees
VisibleStock(r, p) ==
    IF tx[r].state = "open" /\ tx[r].wpid = p THEN tx[r].wstock ELSE stock[p]

\* the committed stock once the private writes of r are made durable
StockAfterCommit(r) ==
    IF tx[r].state = "open" /\ tx[r].wpid # 0
    THEN [stock EXCEPT ![tx[r].wpid] = tx[r].wstock]
    ELSE stock

\* the order written over the row of the same buyer and product (an upsert)
OrdersAfterCommitUpsert(r) ==
    IF tx[r].state = "open" /\ tx[r].worder # NoOrder
    THEN SelectSeq(orders, LAMBDA o : o.product_id # tx[r].worder.product_id
                                      \/ o.buyer_email # tx[r].worder.buyer_email)
         \o <<tx[r].worder>>
    ELSE orders

\* the committed orders once the private writes of r are made durable
OrdersAfterCommit(r) ==
    IF tx[r].state = "open" /\ tx[r].worder # NoOrder
    THEN Append(orders, tx[r].worder)
    ELSE orders

\* statements the try block awaits (lines 306-327)
TryStatements ==
    {"BEGIN", "SELECT", "ROLLBACK_404", "ROLLBACK_400", "UPDATE", "INSERT", "COMMIT"}

ProductId(r) == body[r].productId.n

(* ------------------------ purchase: the handler ------------------------ *)
\* res.status(..).json(..) with no client.release() after it
AnswerWithoutRelease(r, response) ==
    /\ resp' = [resp EXCEPT ![r] = response]
    /\ pc' = [pc EXCEPT ![r] = "done"]
    /\ UNCHANGED <<client, inUse>>

\* res.status(..).json(..) followed by the finally block: client.release()
Answer(r, response) ==
    /\ resp' = [resp EXCEPT ![r] = response]
    /\ client' = [client EXCEPT ![r] = "released"]
    /\ inUse' = inUse - 1
    /\ pc' = [pc EXCEPT ![r] = "done"]

\* a request arrives; the handler calls pool.connect() (requests are numbered
\* in arrival order)
Receive(r) ==
    /\ r \in Reqs
    /\ pc[r] = "idle"
    /\ IF r = 1 THEN TRUE ELSE pc[r - 1] # "idle"
    /\ pc' = [pc EXCEPT ![r] = "connect"]
    /\ UNCHANGED <<body, client, fault, prod, orderRes, tx, lock, stock, price,
                   orders, orderSeq, resp, inUse, faults, initStock, payVars>>

\* pool.connect() resolves with a free client; the fields are validated and
\* either 400 is sent and the client released, or BEGIN is issued
Connect(r) ==
    /\ r \in Reqs
    /\ pc[r] = "connect"
    /\ inUse < PoolMax
    /\ IF MissingFields(body[r])
       THEN /\ resp' = [resp EXCEPT ![r] = MissingFieldsResponse]
            /\ client' = [client EXCEPT ![r] = "released"]
            /\ pc' = [pc EXCEPT ![r] = "done"]
            /\ UNCHANGED inUse
       ELSE /\ client' = [client EXCEPT ![r] = "held"]
            /\ inUse' = inUse + 1
            /\ pc' = [pc EXCEPT ![r] = "BEGIN"]
            /\ UNCHANGED resp
    /\ UNCHANGED <<body, fault, prod, orderRes, tx, lock, stock, price, orders,
                   orderSeq, faults, initStock, payVars>>

\* pool.connect() rejects: the await is outside the try block, the handler's
\* promise rejects and nothing answers the request
ConnectFail(r) ==
    /\ r \in Reqs
    /\ pc[r] = "connect"
    /\ faults < MaxFaults
    /\ faults' = faults + 1
    /\ fault' = [fault EXCEPT ![r] = "refused"]
    /\ pc' = [pc EXCEPT ![r] = "done"]
    /\ UNCHANGED <<body, client, prod, orderRes, tx, lock, stock, price,
                   orders, orderSeq, resp, inUse, initStock, payVars>>

\* BEGIN completes; the locking read is issued
Begin(r) ==
    /\ r \in Reqs
    /\ pc[r] = "BEGIN"
    /\ fault[r] # "lost"
    /\ tx' = [tx EXCEPT ![r] = [NoTx EXCEPT !.state = TxAfterBegin]]
    /\ pc' = [pc EXCEPT ![r] = "SELECT"]
    /\ UNCHANGED <<body, client, fault, prod, orderRes, lock, stock, price,
                   orders, orderSeq, resp, inUse, faults, initStock, payVars>>

\* SELECT id, price, stock ... FOR UPDATE completes (it waits while another
\* transaction holds the row lock); no row: ROLLBACK for 404; stock < qty:
\* ROLLBACK for 400; otherwise the UPDATE is issued
Select(r) ==
    /\ r \in Reqs
    /\ pc[r] = "SELECT"
    /\ fault[r] # "lost"
    /\ IF ProductId(r) \in Products
       THEN /\ ForUpdate => ~RowLockedByOther(ProductId(r), r)
            /\ lock' = IF ForUpdate /\ tx[r].state = "open"
                       THEN [lock EXCEPT ![ProductId(r)] = r]
                       ELSE lock
            /\ prod' = [prod EXCEPT ![r] =
                   [stock |-> VisibleStock(r, ProductId(r)),
                    price |-> price[ProductId(r)]]]
            /\ pc' = [pc EXCEPT ![r] =
                   IF InsufficientStock(VisibleStock(r, ProductId(r)), Qty(body[r]).n)
                   THEN "ROLLBACK_400" ELSE "UPDATE"]
       ELSE /\ pc' = [pc EXCEPT ![r] = "ROLLBACK_404"]
            /\ UNCHANGED <<lock, prod>>
    /\ UNCHANGED <<body, client, fault, orderRes, tx, stock, price, orders,
                   orderSeq, resp, inUse, faults, initStock, payVars>>

\* UPDATE products SET stock = newStock completes (it takes the row lock);
\* the INSERT is issued
Update(r) ==
    /\ r \in Reqs
    /\ pc[r] = "UPDATE"
    /\ fault[r] # "lost"
    /\ ~RowLockedByOther(ProductId(r), r)
    /\ LET newStock == NewStock(prod[r].stock, Qty(body[r]).n)
       IN IF tx[r].state = "open"
          THEN /\ tx' = [tx EXCEPT ![r].wpid = ProductId(r), ![r].wstock = newStock]
               /\ lock' = [lock EXCEPT ![ProductId(r)] = r]
               /\ UNCHANGED stock
          ELSE /\ stock' = [stock EXCEPT ![ProductId(r)] = newStock]
               /\ UNCHANGED <<tx, lock>>
    /\ pc' = [pc EXCEPT ![r] = "INSERT"]
    /\ UNCHANGED <<body, client, fault, prod, orderRes, price, orders, orderSeq,
                   resp, inUse, faults, initStock, payVars>>

\* INSERT INTO orders ... RETURNING completes; COMMIT is issued
Insert(r) ==
    /\ r \in Reqs
    /\ pc[r] = "INSERT"
    /\ fault[r] # "lost"
    /\ LET row == [id |-> orderSeq + 1,
                   product_id |-> ProductId(r),
                   buyer_email |-> Email(body[r]),
                   quantity |-> Qty(body[r]).n,
                   total_price |-> Total(prod[r].price, Qty(body[r]).n),
                   req |-> r]
       IN /\ orderRes' = [orderRes EXCEPT ![r] = row]
          /\ IF tx[r].state = "open"
             THEN /\ tx' = [tx EXCEPT ![r].worder = row]
                  /\ UNCHANGED orders
             ELSE /\ orders' = Append(orders, row)
                  /\ UNCHANGED tx
    /\ orderSeq' = orderSeq + 1
    /\ pc' = [pc EXCEPT ![r] = "COMMIT"]
    /\ UNCHANGED <<body, client, fault, prod, lock, stock, price, resp, inUse,
                   faults, initStock, payVars>>

\* COMMIT completes: the private writes become durable and the row lock is
\* released; 201 is sent with the order and newStock
Commit(r) ==
    /\ r \in Reqs
    /\ pc[r] = "COMMIT"
    /\ fault[r] # "lost"
    /\ stock' = StockAfterCommit(r)
    /\ orders' = OrdersAfterCommit(r)
    /\ lock' = Unlocked(r)
    /\ tx' = [tx EXCEPT ![r] = NoTx]
    /\ Answer(r, CreatedResponse(orderRes[r], NewStock(prod[r].stock, Qty(body[r]).n)))
    /\ UNCHANGED <<body, fault, prod, orderRes, price, orderSeq, faults,
                   initStock, payVars>>

\* an early return that sends 404 or 400 without ROLLBACK
ReturnWithoutRollback(r) ==
    /\ r \in Reqs
    /\ pc[r] \in {"ROLLBACK_404", "ROLLBACK_400"}
    /\ fault[r] # "lost"
    /\ Answer(r, IF pc[r] = "ROLLBACK_404"
                 THEN NotFoundResponse
                 ELSE InsufficientStockResponse)
    /\ UNCHANGED <<body, fault, prod, orderRes, tx, lock, stock, price, orders,
                   orderSeq, faults, initStock, payVars>>

\* the ROLLBACK before an early return completes: 404 or 400 is sent
Rollback(r) ==
    /\ r \in Reqs
    /\ pc[r] \in {"ROLLBACK_404", "ROLLBACK_400"}
    /\ fault[r] # "lost"
    /\ lock' = Unlocked(r)
    /\ tx' = [tx EXCEPT ![r] = NoTx]
    /\ Answer(r, IF pc[r] = "ROLLBACK_404"
                 THEN NotFoundResponse
                 ELSE InsufficientStockResponse)
    /\ UNCHANGED <<body, fault, prod, orderRes, stock, price, orders, orderSeq,
                   faults, initStock, payVars>>

\* the ROLLBACK of the catch block completes: 500 is sent
RollbackCatch(r) ==
    /\ r \in Reqs
    /\ pc[r] = "ROLLBACK_catch"
    /\ fault[r] # "lost"
    /\ lock' = Unlocked(r)
    /\ tx' = [tx EXCEPT ![r] = NoTx]
    /\ Answer(r, PurchaseFailedResponse)
    /\ UNCHANGED <<body, fault, prod, orderRes, stock, price, orders, orderSeq,
                   faults, initStock, payVars>>

\* the ROLLBACK of the catch block rejects (the connection is gone): the
\* error leaves the handler after the finally block, no response is sent
RollbackCatchFail(r) ==
    /\ r \in Reqs
    /\ pc[r] = "ROLLBACK_catch"
    /\ fault[r] = "lost"
    /\ client' = [client EXCEPT ![r] = "released"]
    /\ inUse' = inUse - 1
    /\ pc' = [pc EXCEPT ![r] = "done"]
    /\ UNCHANGED <<body, fault, prod, orderRes, tx, lock, stock, price, orders,
                   orderSeq, resp, faults, initStock, payVars>>

\* a statement of the try block is rejected by the store (lock timeout,
\* constraint, resource error): the store aborts the transaction, dropping
\* its writes and locks, and the catch block issues ROLLBACK
StmtError(r) ==
    /\ r \in Reqs
    /\ pc[r] \in TryStatements
    /\ fault[r] # "lost"
    /\ faults < MaxFaults
    /\ faults' = faults + 1
    /\ lock' = Unlocked(r)
    /\ tx' = [tx EXCEPT ![r] =
           [NoTx EXCEPT !.state = IF tx[r].state = "none" THEN "none" ELSE "failed"]]
    /\ fault' = [fault EXCEPT ![r] = "rejected"]
    /\ pc' = [pc EXCEPT ![r] = "ROLLBACK_catch"]
    /\ UNCHANGED <<body, client, prod, orderRes, stock, price, orders,
                   orderSeq, resp, inUse, initStock, payVars>>

\* the connection of the client breaks while a statement is awaited: the
\* store ends the session, aborting its transaction; the awaited call
\* rejects and so will the ROLLBACK of the catch block
ConnLost(r) ==
    /\ r \in Reqs
    /\ pc[r] \in TryStatements \cup {"ROLLBACK_catch"}
    /\ fault[r] # "lost"
    /\ faults < MaxFaults
    /\ faults' = faults + 1
    /\ fault' = [fault EXCEPT ![r] = "lost"]
    /\ lock' = Unlocked(r)
    /\ tx' = [tx EXCEPT ![r] = NoTx]
    /\ pc' = [pc EXCEPT ![r] = "ROLLBACK_catch"]
    /\ UNCHANGED <<body, client, prod, orderRes, stock, price, orders,
                   orderSeq, resp, inUse, initStock, payVars>>

NextPurchase ==
    \E r \in 1..NumReq :
        \/ Receive(r)
        \/ Connect(r)
        \/ ConnectFail(r)
        \/ Begin(r)
        \/ Select(r)
        \/ Update(r)
        \/ Insert(r)
        \/ Commit(r)
        \/ Rollback(r)
        \/ RollbackCatch(r)
        \/ RollbackCatchFail(r)
        \/ StmtError(r)
        \/ ConnLost(r)

(* ------------------------- purchase: requests -------------------------- *)
\* quantities of well-formed purchases
Quantities == {1, 2}

\* request bodies of well-formed purchases of existing products
OrderBodies ==
    {[productId |-> JNum(p), buyerEmail |-> JStr(<<" ", "A", " ">>), quantity |-> JNum(q)] :
        p \in Products, q \in Quantities}

\* request bodies with missing, empty, zero, negative and non-numeric fields
\* and with the id of no product
AnyBodies ==
    [productId : {JUndefined, JNum(0), JNum(1), JNum(3)},
     buyerEmail : {JUndefined, JStr(<<>>), JStr(<<" ">>), JStr(<<" ", "A", " ">>)},
     quantity : {JUndefined, JStr(<<"2">>), JStr(<<"x">>)} \cup {JNum(q) : q \in {-1, 0} \cup Quantities}]

InitLedger(bodies, stocks) ==
    /\ body \in bodies
    /\ pc = [r \in DOMAIN body |-> "idle"]
    /\ client = [r \in DOMAIN body |-> "none"]
    /\ fault = [r \in DOMAIN body |-> "none"]
    /\ prod = [r \in DOMAIN body |-> NoRow]
    /\ orderRes = [r \in DOMAIN body |-> NoOrder]
    /\ tx = [r \in DOMAIN body |-> NoTx]
    /\ resp = [r \in DOMAIN body |-> NoResp]
    /\ lock = [p \in Products |-> 0]
    /\ stock \in {[p \in Products |-> s] : s \in stocks}
    /\ initStock = stock
    /\ price = [p \in Products |-> PriceCents[p]]
    /\ orders = <<>>
    /\ orderSeq = 0
    /\ inUse = 0
    /\ faults = 0

(* ------------------------------ payment -------------------------------- *)
Pays == DOMAIN pay

\* the payment request has not been answered
NoPayResp == [status |-> 0, error |-> "", details |-> "", payload |-> "none"]

\* HTTP statuses the provider answers a rejected create or capture call with
RejectStatuses == {422, 500}

\* the paths the two pairs of routes are mounted on
CreatePaths == {"/create-order", "/api/paypal/create-order"}
CapturePaths == {"/capture-order", "/api/paypal/capture-order"}

\* req.url after the /api/paypal routes have rewritten it and handed the
\* request back to the router
Dispatch(path) ==
    CASE path = "/api/paypal/create-order" -> "/create-order"
      [] path = "/api/paypal/capture-order" -> "/capture-order"
      [] OTHER -> path

\* const amt = Number(amount); !amt || amt <= 0
InvalidAmount(amount) == FalsyNumber(Number(amount)) \/ Number(amount).n <= 0

\* !orderID
MissingOrderID(orderID) == ~Truthy(orderID)

\* the error field of the catch block of the handler mounted on url
CatchError(url) ==
    IF url = "/create-order" THEN "Create order failed" ELSE "Capture order failed"

\* res.status(500).json({ error, details: String(error) }) of the catch block
CatchResponse(url, what) ==
    [status |-> 500, error |-> CatchError(url), details |-> what, payload |-> "none"]

\* res.status(400).json({ error }) of the input check of the handler
InvalidResponse(url) ==
    [status |-> 400,
     error |-> IF url = "/create-order" THEN "Invalid amount" ELSE "orderID is required",
     details |-> "", payload |-> "none"]

\* res.status(500).json({ error: 'PayPal credentials not configured' })
NotConfiguredResponse ==
    [status |-> 500, error |-> "PayPal credentials not configured",
     details |-> "", payload |-> "none"]

\* res.status(providerStatus).json(data) and res.json(data)
RelayResponse(st) ==
    [status |-> st, error |-> "", details |-> "", payload |-> "provider"]

\* a payment handler that puts the stock back to what it was before the
\* purchases
LedgerStockReleased ==
    /\ stock' = initStock
    /\ UNCHANGED <<pc, body, client, fault, prod, orderRes, tx, lock, price,
                   orders, orderSeq, resp, inUse, faults, initStock>>

\* the payment handlers and getPayPalAccessToken make no call on the pool or
\* on a client: nothing of the ledger changes in their steps
LedgerUntouched == UNCHANGED ledgerVars

PayAnswer(k, response, kind) ==
    pay' = [pay EXCEPT ![k].pc = "done", ![k].resp = response, ![k].fault = kind]

\* a payment request arrives and runs up to its first await: the /api/paypal
\* routes rewrite req.url and re-enter the router, the handler checks its
\* input and the credentials and sends the token request
PayReceive(k) ==
    /\ k \in Pays
    /\ pay[k].pc = "idle"
    /\ IF k = 1 THEN TRUE ELSE pay[k - 1].pc # "idle"
    /\ LET url == Dispatch(pay[k].path)
           invalid == IF url = "/create-order"
                      THEN InvalidAmount(pay[k].amount)
                      ELSE MissingOrderID(pay[k].orderID)
       IN IF invalid
          THEN PayAnswer(k, InvalidResponse(url), "InvalidInput")
          ELSE IF ~credentials
               THEN PayAnswer(k, NotConfiguredResponse, "NotConfigured")
               ELSE pay' = [pay EXCEPT ![k].pc = "token",
                                       ![k].calls = Append(@, "token")]
    /\ LedgerUntouched
    /\ UNCHANGED credentials

\* the token of the request before, kept in a variable of the module
BearerCached(k, token) ==
    IF k > 1 /\ pay[k - 1].token # 0 THEN pay[k - 1].token ELSE token

\* 'Authorization': `Bearer ${token}`, token being the const of this
\* invocation of the handler
Bearer(k, token) == token

\* the token exchange answers 2xx with a token (the provider issues a fresh
\* one per exchange, named after the request): the handler sends the
\* create / capture call bearing it
TokenGranted(k) ==
    /\ k \in Pays
    /\ pay[k].pc = "token"
    /\ pay' = [pay EXCEPT ![k].pc = "order",
                          ![k].token = k,
                          ![k].bearer = Bearer(k, k),
                          ![k].calls = Append(@, "order")]
    /\ LedgerUntouched
    /\ UNCHANGED credentials

\* a rejected token exchange passed over: the create / capture call is sent
\* without a token
TokenRejectedIgnored(k) ==
    /\ k \in Pays
    /\ pay[k].pc = "token"
    /\ pay' = [pay EXCEPT ![k].pc = "order",
                          ![k].fault = "AuthFailed",
                          ![k].calls = Append(@, "order")]
    /\ LedgerUntouched
    /\ UNCHANGED credentials

\* the token exchange answers non-2xx: getPayPalAccessToken throws and the
\* catch block of the handler answers
TokenRejected(k) ==
    /\ k \in Pays
    /\ pay[k].pc = "token"
    /\ PayAnswer(k, CatchResponse(Dispatch(pay[k].path), "Error: PayPal token failed"),
                 "AuthFailed")
    /\ LedgerUntouched
    /\ UNCHANGED credentials

\* fetch rejects (provider unreachable, connection reset, runtime timeout)
\* during the token exchange or the create / capture call
FetchFailed(k) ==
    /\ k \in Pays
    /\ pay[k].pc \in {"token", "order"}
    /\ PayAnswer(k, CatchResponse(Dispatch(pay[k].path), "TypeError: fetch failed"),
                 "ProviderUnavailable")
    /\ LedgerUntouched
    /\ UNCHANGED credentials

\* the provider answers the create / capture call with JSON: 2xx is relayed
\* with status 200, non-2xx with the provider's status
ProviderAnswers(k) ==
    /\ k \in Pays
    /\ pay[k].pc = "order"
    /\ \/ PayAnswer(k, RelayResponse(200), "none")
       \/ \E st \in RejectStatuses : PayAnswer(k, RelayResponse(st), "ProviderRejected")
    /\ LedgerUntouched
    /\ UNCHANGED credentials

\* the provider answers the create / capture call with a body that is not
\* JSON (a gateway error page): orderResp.json() throws before the status is
\* looked at and the catch block answers
ProviderAnswersNoJson(k) ==
    /\ k \in Pays
    /\ pay[k].pc = "order"
    /\ PayAnswer(k, CatchResponse(Dispatch(pay[k].path), "SyntaxError: invalid json"),
                 "ProviderMalformed")
    /\ LedgerUntouched
    /\ UNCHANGED credentials

NextPay ==
    \E k \in 1..NumPay :
        \/ PayReceive(k)
        \/ TokenGranted(k)
        \/ TokenRejected(k)
        \/ FetchFailed(k)
        \/ ProviderAnswers(k)
        \/ ProviderAnswersNoJson(k)

\* amounts of create requests: missing, null, negative, zero, positive,
\* numeric and non-numeric strings, a boolean
Amounts ==
    {JUndefined, JNull, JNum(-1), JNum(0), JNum(5), JStr(<<"5">>), JStr(<<"x">>), JTrue}

\* provider order ids of capture requests: missing, empty, present
OrderIDs == {JUndefined, JStr(<<>>), JStr(<<"O", "1">>)}

PayRequests ==
    {[path |-> pth, amount |-> a, orderID |-> JUndefined] :
        pth \in CreatePaths, a \in Amounts}
    \cup
    {[path |-> pth, amount |-> JUndefined, orderID |-> o] :
        pth \in CapturePaths, o \in OrderIDs}

NewPay(rq) ==
    [pc |-> "idle", path |-> rq.path, amount |-> rq.amount, orderID |-> rq.orderID,
     calls |-> <<>>, token |-> 0, bearer |-> 0, fault |-> "none", resp |-> NoPayResp]

InitPayments(n, configured) ==
    /\ pay \in {[k \in 1..n |-> NewPay(f[k])] : f \in [1..n -> PayRequests]}
    /\ credentials \in configured

(* --------------------------- specifications ---------------------------- *)
\* concurrent well-formed purchases, with store faults
Init == InitLedger([1..NumReq -> OrderBodies], 0..MaxStock) /\ InitPayments(0, {TRUE})
Next == NextPurchase
Spec == Init /\ [][Next]_vars

\* one purchase with any request body, with store faults
InitOne == InitLedger([{1} -> AnyBodies], 0..MaxStock) /\ InitPayments(0, {TRUE})
SpecOne == InitOne /\ [][Next]_vars

\* payment requests against the provider
InitPay == InitLedger([{} -> AnyBodies], {MaxStock}) /\ InitPayments(NumPay, BOOLEAN)
SpecPay == InitPay /\ [][NextPay]_vars

\* concurrent purchases of one unit of one product that has one unit or
\* several, with store faults, beside a valid payment request
UnitBodies == {b \in OrderBodies : b.productId = JNum(1) /\ b.quantity = JNum(1)}
ValidPayRequests ==
    {rq \in PayRequests :
        \/ rq.path = "/create-order" /\ rq.amount = JNum(5)
        \/ rq.path = "/api/paypal/capture-order" /\ rq.orderID = JStr(<<"O", "1">>)}
InitAll ==
    /\ InitLedger([1..NumReq -> UnitBodies], {1, MaxStock})
    /\ pay \in {<<NewPay(rq)>> : rq \in ValidPayRequests}
    /\ credentials = TRUE
NextAll == NextPurchase \/ NextPay
SpecAll == InitAll /\ [][NextAll]_vars

\* one more concurrent purchase than the pool has clients, each of one unit
\* of a product that has one, no store fault, every request scheduled fairly
\* (the event loop runs every continuation whose awaited call has completed,
\* the store completes every statement that is not waiting for a lock, and
\* the pool hands a free client to a waiting pool.connect())
PoolBodies == {b \in OrderBodies : b.quantity = JNum(1)}
InitPool == InitLedger([1..(PoolMax + 1) -> PoolBodies], {1}) /\ InitPayments(0, {TRUE})
PurchaseStep(r) ==
    \/ Receive(r)
    \/ Connect(r)
    \/ Begin(r)
    \/ Select(r)
    \/ Update(r)
    \/ Insert(r)
    \/ Commit(r)
    \/ Rollback(r)
NextPool == \E r \in 1..(PoolMax + 1) : PurchaseStep(r)
SpecPool ==
    InitPool /\ [][NextPool]_vars /\ \A r \in 1..(PoolMax + 1) : WF_vars(PurchaseStep(r))

(* ------------------------------- claims -------------------------------- *)
Answered(r) == resp[r] # NoResp
Succeeded(r) == resp[r].status = 201
\* the request met a store fault
Faulted(r) == fault[r] # "none"
\* the request passed the field check with an integer quantity
WellFormed(r) == ~MissingFields(body[r])
QtyOf(r) == Qty(body[r]).n

RECURSIVE SumSold(_, _)
\* quantities of the successful purchases of product p among requests 1..n
SumSold(p, n) ==
    IF n = 0 THEN 0
    ELSE SumSold(p, n - 1)
         + (IF Succeeded(n) /\ ProductId(n) = p THEN resp[n].order.quantity ELSE 0)

RECURSIVE SumOrdered(_, _)
\* quantities of the first n committed Order rows of product p
SumOrdered(p, n) ==
    IF n = 0 THEN 0
    ELSE SumOrdered(p, n - 1)
         + (IF orders[n].product_id = p THEN orders[n].quantity ELSE 0)

\* the committed Order rows inserted by request r
RowsOf(r) == {i \in 1..Len(orders) : orders[i].req = r}

\* C1: no overselling: in every committed state the stock of every product
\* is at least 0, and the quantities of the successful (201) purchases of a
\* product add up to at most the stock it had before the requests.
C1_NoOverselling ==
    \A p \in Products :
        /\ stock[p] >= 0
        /\ SumSold(p, Len(pc)) <= initStock[p]

\* C1 witness: one purchase holds the row lock after its UPDATE while another
\* purchase of the same product waits in its locking read, and together they
\* ask for more than the product has.
C1_Witness ==
    \E r1 \in Reqs, r2 \in Reqs :
        /\ r1 # r2
        /\ ProductId(r1) = ProductId(r2)
        /\ lock[ProductId(r1)] = r1
        /\ pc[r1] = "INSERT"
        /\ pc[r2] = "SELECT"
        /\ QtyOf(r1) + QtyOf(r2) > initStock[ProductId(r1)]

\* all requests of the run ask for quantity q of product p
AllAsk(p, q) == \A r \in Reqs : ProductId(r) = p /\ QtyOf(r) = q
AllDone == \A r \in Reqs : pc[r] = "done"
Successes == {r \in Reqs : Succeeded(r)}

\* C2: N concurrent purchases of quantity q each of one product with stock
\* S, N*q > S, no store fault: once all have answered there are exactly
\* S div q successes, every other request was answered Insufficient stock,
\* and the stock is S - (S div q)*q.
C2_ConcurrentReservations ==
    \A p \in Products, q \in Quantities :
        (/\ AllAsk(p, q)
         /\ AllDone
         /\ faults = 0
         /\ Len(pc) * q > initStock[p])
        => /\ Cardinality(Successes) = initStock[p] \div q
           /\ \A r \in Reqs \ Successes : resp[r] = InsufficientStockResponse
           /\ stock[p] = initStock[p] - (initStock[p] \div q) * q

\* C2 witness: all requests asked for the same quantity of the same product,
\* more than it had, and all have answered, one with success and one with
\* Insufficient stock.
C2_Witness ==
    /\ AllDone
    /\ faults = 0
    /\ \E p \in Products, q \in Quantities :
          AllAsk(p, q) /\ Len(pc) * q > initStock[p]
    /\ Successes # {}
    /\ \E r \in Reqs : resp[r] = InsufficientStockResponse

\* C3, in every state: a well-formed purchase whose locking read found stock
\* s >= q and that met no store fault, once answered, succeeded with
\* remainingStock = s - q and has exactly one committed Order row, of
\* quantity q and total price * q, which is the order it reported.
C3_State ==
    \A r \in Reqs :
        (/\ pc[r] = "done"
         /\ ~Faulted(r)
         /\ prod[r] # NoRow
         /\ QtyOf(r) <= prod[r].stock)
        => /\ Succeeded(r)
           /\ resp[r].remainingStock = prod[r].stock - QtyOf(r)
           /\ Cardinality(RowsOf(r)) = 1
           /\ \A i \in RowsOf(r) :
                 /\ orders[i].quantity = QtyOf(r)
                 /\ orders[i].total_price = price[ProductId(r)] * QtyOf(r)
                 /\ orders[i].product_id = ProductId(r)
                 /\ resp[r].order = orders[i]

\* C3, in every step: the step in which a purchase succeeds leaves the stored
\* stock of its product at s - q and adds exactly one Order row.
C3_Step ==
    \A r \in Reqs :
        (~Succeeded(r) /\ resp'[r].status = 201)
        => /\ stock'[ProductId(r)] = prod[r].stock - QtyOf(r)
           /\ stock'[ProductId(r)] = resp'[r].remainingStock
           /\ Len(orders') = Len(orders) + 1

\* C3: for every product with stock s and price p and every well-formed
\* purchase of quantity 0 < q <= s that meets no store fault, the purchase
\* succeeds, remainingStock and the stored stock are s - q, and exactly one
\* Order row is added, of quantity q and total p * q.
C3_ReservationSucceeds == []C3_State /\ [][C3_Step]_vars

\* C3 witness: a purchase of quantity 2 has succeeded.
C3_Witness ==
    \E r \in Reqs : Succeeded(r) /\ QtyOf(r) = 2 /\ resp[r].order.total_price > 0

\* the locking read of r found less stock than r asks for
ReadTooLittle(r) == prod[r] # NoRow /\ prod[r].stock < QtyOf(r)

\* C4, in every state: a purchase whose locking read found stock < q has no
\* Order row and no pending write; if it was answered without a store fault
\* the answer is Insufficient stock; and when two purchases with the same
\* body both read too little and were answered without a fault, their
\* answers are the same.
C4_State ==
    /\ \A r \in Reqs :
          ReadTooLittle(r)
          => /\ RowsOf(r) = {}
             /\ tx[r].wpid = 0
             /\ tx[r].worder = NoOrder
             /\ (Answered(r) /\ ~Faulted(r)) => resp[r] = InsufficientStockResponse
    /\ \A r1 \in Reqs, r2 \in Reqs :
          (/\ body[r1] = body[r2]
           /\ resp[r1] = InsufficientStockResponse
           /\ stock[ProductId(r1)] = initStock[ProductId(r1)]
           /\ pc[r2] = "done"
           /\ prod[r2] # NoRow
           /\ ~Faulted(r2))
          => resp[r2] = resp[r1]

\* C4, in every step: no step of a purchase whose locking read found
\* stock < q changes the stock of any product or the Order rows.
C4_Step ==
    \A r \in Reqs :
        (ReadTooLittle(r) /\ pc'[r] # pc[r]) => (stock' = stock /\ orders' = orders)

\* C4: a purchase whose quantity exceeds the stock fails with Insufficient
\* stock and leaves the stock and the Order rows as they were; repeating it
\* gives the same outcome and still changes nothing.
C4_InsufficientStockNoOp == []C4_State /\ [][C4_Step]_vars

\* C4 witness: the same request was made twice and both were answered
\* Insufficient stock, with the stock still what it was at the start.
C4_Witness ==
    \E r1 \in Reqs, r2 \in Reqs :
        /\ r1 # r2
        /\ body[r1] = body[r2]
        /\ resp[r1] = InsufficientStockResponse
        /\ resp[r2] = InsufficientStockResponse
        /\ stock = initStock
        /\ orders = <<>>

\* the request names a product id that is present and is the id of no product
UnknownProduct(r) == WellFormed(r) /\ ProductId(r) \notin Products

EmptyEmailOrNonPositiveQuantity(b) ==
    \/ b.buyerEmail = JUndefined
    \/ b.buyerEmail = JStr(<<>>)
    \/ (b.quantity.t = "number" /\ b.quantity.n <= 0)

\* C6 (the claim as stated): a purchase with an empty or missing buyerEmail
\* or a zero or negative quantity never holds or has held a pooled client,
\* never issues BEGIN or any later statement, and is answered 400.
C6_InvalidInputBeforeStoreAccess ==
    \A r \in Reqs :
        EmptyEmailOrNonPositiveQuantity(body[r])
        => /\ client[r] = "none"
           /\ pc[r] \in {"idle", "connect", "done"}
           /\ pc[r] = "done" => resp[r] = MissingFieldsResponse

\* C7: reservation is all-or-nothing: in every committed state, for every
\* product, initial stock - stock is the sum of the quantities of its
\* committed Order rows; a purchase has a committed Order row exactly when
\* it was answered 201; and a purchase that met a store fault has none.
C7_AllOrNothing ==
    /\ \A p \in Products :
          initStock[p] - stock[p] = SumOrdered(p, Len(orders))
    /\ \A r \in Reqs :
          /\ Cardinality(RowsOf(r)) = (IF Succeeded(r) THEN 1 ELSE 0)
          /\ Faulted(r) => RowsOf(r) = {}

\* C7 witness: a purchase failed at COMMIT, after its UPDATE and INSERT, and
\* was answered 500.
C7_Witness ==
    \E r \in Reqs :
        /\ pc[r] = "done"
        /\ resp[r] = PurchaseFailedResponse
        /\ orderRes[r] # NoOrder

\* C8 (the claim as stated): every purchase whose handler has ended has
\* received a response, and the response to one that met a store fault at
\* any step is 500.
C8_EveryFaultAnswered500 ==
    \A r \in Reqs :
        pc[r] = "done"
        => /\ Answered(r)
           /\ Faulted(r) => resp[r] = PurchaseFailedResponse

\* the amount is missing, no number, or a number <= 0
NotAPositiveNumber(a) ==
    \/ a.t \in {"undefined", "null", "boolean"}
    \/ (a.t = "number" /\ a.n <= 0)
    \/ (a.t = "string" /\ InvalidAmount(a))

\* C9 (the claim as stated): with the provider credentials configured, a
\* create request whose amount is <= 0, missing or not numeric makes no
\* network call and is answered 400, on both routes.
C9_InvalidAmountNoNetwork ==
    \A k \in Pays :
        (credentials /\ pay[k].path \in CreatePaths /\ NotAPositiveNumber(pay[k].amount))
        => /\ pay[k].calls = <<>>
           /\ pay[k].pc \in {"idle", "done"}
           /\ pay[k].pc = "done" => pay[k].resp = InvalidResponse("/create-order")

\* what a caller can tell a response by without reading the free text of
\* details: the status, the error field and whose payload it is
Kind(response) == <<response.status, response.error, response.payload>>

ProviderFaults == {"AuthFailed", "ProviderRejected", "ProviderUnavailable"}

\* C10 (the claim as stated): two payment requests on the same operation
\* that ended in different provider faults (token rejected, provider
\* rejected, provider unreachable) were answered with responses of
\* different kinds.
C10_ProviderFaultsDistinct ==
    \A k1 \in Pays, k2 \in Pays :
        (/\ pay[k1].pc = "done" /\ pay[k2].pc = "done"
         /\ Dispatch(pay[k1].path) = Dispatch(pay[k2].path)
         /\ pay[k1].fault \in ProviderFaults
         /\ pay[k2].fault \in ProviderFaults
         /\ pay[k1].fault # pay[k2].fault)
        => Kind(pay[k1].resp) # Kind(pay[k2].resp)

\* C11 (the claim as stated): with the provider credentials configured,
\* every answer to a capture request has status 200, 400 or 502: 400 exactly
\* when orderID is empty or missing, and then without a network call, 200
\* when the provider's capture succeeds, and 502 when the provider answers
\* non-2xx, the token exchange fails or the provider is unreachable.
C11_CaptureStatuses ==
    \A k \in Pays :
        (credentials /\ pay[k].path \in CapturePaths /\ pay[k].pc = "done")
        => /\ pay[k].resp.status \in {200, 400, 502}
           /\ (pay[k].resp.status = 400) <=> MissingOrderID(pay[k].orderID)
           /\ MissingOrderID(pay[k].orderID) => pay[k].calls = <<>>
           /\ pay[k].fault = "none" => pay[k].resp.status = 200
           /\ pay[k].fault \in ProviderFaults => pay[k].resp.status = 502

\* the request passed the input check of its handler
PassedValidation(k) ==
    IF Dispatch(pay[k].path) = "/create-order"
    THEN ~InvalidAmount(pay[k].amount)
    ELSE ~MissingOrderID(pay[k].orderID)

\* the token exchange of the request failed: rejected, or no answer
TokenFailed(k) ==
    \/ pay[k].fault = "AuthFailed"
    \/ (pay[k].fault = "ProviderUnavailable" /\ pay[k].token = 0)

\* C17: the network calls of a payment request are, in order, at most one
\* token exchange and then at most one create / capture call; a request that
\* passed validation (credentials configured) starts with its own token
\* exchange, one whose token exchange succeeded has made exactly the two
\* calls, the second bearing the token of its own exchange, and no request
\* bears a token that another request obtained.
C17_OneTokenThenOneCall ==
    \A k \in Pays :
        /\ pay[k].calls \in {<<>>, <<"token">>, <<"token", "order">>}
        /\ (PassedValidation(k) /\ credentials /\ pay[k].pc # "idle")
           => (pay[k].calls # <<>> /\ pay[k].calls[1] = "token")
        /\ pay[k].pc = "token" => pay[k].calls = <<"token">>
        /\ (pay[k].pc = "order" \/ pay[k].resp.payload = "provider")
           => (pay[k].calls = <<"token", "order">> /\ pay[k].token # 0)
        /\ (pay[k].pc = "done" /\ PassedValidation(k) /\ credentials /\ ~TokenFailed(k))
           => pay[k].calls = <<"token", "order">>
        /\ Len(pay[k].calls) = 2 => pay[k].bearer = pay[k].token
        /\ \A j \in Pays \ {k} : pay[k].bearer # 0 => pay[k].bearer # pay[j].token

\* C17 witness: two requests, a create and a capture, have each been answered
\* by the provider after their own token exchange.
C17_Witness ==
    \E k1 \in Pays, k2 \in Pays :
        /\ Dispatch(pay[k1].path) = "/create-order"
        /\ Dispatch(pay[k2].path) = "/capture-order"
        /\ pay[k1].resp.payload = "provider"
        /\ pay[k2].resp.payload = "provider"
        /\ pay[k1].token # 0 /\ pay[k2].token # 0

\* C18: a request whose token exchange failed (rejected, or provider
\* unreachable) has ended with the 500 of its catch block after exactly one
\* network call, the token exchange: no retry, and no create / capture call.
C18_TokenFailureFatal ==
    \A k \in Pays :
        TokenFailed(k)
        => /\ pay[k].pc = "done"
           /\ pay[k].resp.status = 500
           /\ pay[k].resp.error = CatchError(Dispatch(pay[k].path))
           /\ pay[k].calls = <<"token">>
           /\ pay[k].bearer = 0

\* C18 witness: a create request ended on a rejected token exchange and a
\* capture request on an unreachable provider during the token exchange.
C18_Witness ==
    \E k1 \in Pays, k2 \in Pays :
        /\ Dispatch(pay[k1].path) = "/create-order"
        /\ pay[k1].fault = "AuthFailed"
        /\ Dispatch(pay[k2].path) = "/capture-order"
        /\ pay[k2].fault = "ProviderUnavailable" /\ pay[k2].token = 0
        /\ pay[k1].pc = "done" /\ pay[k2].pc = "done"

\* the payment request ended in a failure of the payment
PaymentFailed(k) ==
    pay[k].pc = "done" /\ pay[k].fault \in ProviderFaults \cup {"ProviderMalformed"}

\* C12, in every step: a step of a payment request (arrival, token exchange
\* granted or failed, provider answer of any kind) leaves the stock of every
\* product, the Order rows, the row locks and the open transactions as they
\* were, and no step of any request raises the stock of a product.
C12_Step ==
    /\ pay' # pay
       => (stock' = stock /\ orders' = orders /\ lock' = lock /\ tx' = tx)
    /\ \A p \in Products : stock'[p] <= stock[p]

\* C12: payment operations never touch the ledger, and stock taken by a
\* committed reservation is never given back, whatever becomes of the payment.
C12_PaymentsLeaveLedger == [][C12_Step]_vars

\* C12 witness: a reservation has committed (stock decremented, Order row
\* recorded) and the payment request has failed; the stock stays decremented.
C12_Witness ==
    \E r \in Reqs, k \in Pays :
        /\ Succeeded(r)
        /\ RowsOf(r) # {}
        /\ stock[ProductId(r)] = initStock[ProductId(r)] - QtyOf(r)
        /\ PaymentFailed(k)

\* C13: Order rows are immutable: every step of a purchase or a payment
\* request keeps every committed Order row in place with the same id, product,
\* buyer email, quantity and total price.
C13_OrdersImmutable ==
    [][\A i \in 1..Len(orders) : i <= Len(orders') /\ orders'[i] = orders[i]]_vars

\* C13 witness: after an Order row was committed and the payment request
\* answered, a second purchase of the same product by the same buyer has
\* committed its own Order row.
C13_Witness ==
    \E k \in Pays :
        /\ Len(orders) = 2
        /\ orders[1].product_id = orders[2].product_id
        /\ orders[1].buyer_email = orders[2].buyer_email
        /\ orders[1].id # orders[2].id
        /\ pay[k].pc = "done"

\* the transaction of r is between its locking read of an existing row and
\* its COMMIT or ROLLBACK
InCritical(r) ==
    /\ tx[r].state = "open"
    /\ prod[r] # NoRow
    /\ pc[r] \in {"UPDATE", "INSERT", "COMMIT", "ROLLBACK_400"}

\* C14, in every state: two purchases of the same product are never both
\* between their locking read and their COMMIT / ROLLBACK, and the stock a
\* purchase read under the lock is still the committed stock of the product
\* for as long as its transaction lasts.
C14_State ==
    /\ \A r1 \in Reqs, r2 \in Reqs :
          (r1 # r2 /\ ProductId(r1) = ProductId(r2))
          => ~(InCritical(r1) /\ InCritical(r2))
    /\ \A r \in Reqs :
          InCritical(r) => prod[r].stock = stock[ProductId(r)]

\* C14, in every step: a locking read returns the stock committed last (by the
\* transaction that held the lock before), and the commit of a purchase
\* lowers the committed stock of the moment by exactly its quantity.
C14_Step ==
    \A r \in Reqs :
        /\ (pc[r] = "SELECT" /\ prod'[r] # NoRow)
           => prod'[r].stock = stock[ProductId(r)]
        /\ (~Succeeded(r) /\ resp'[r].status = 201)
           => stock'[ProductId(r)] = stock[ProductId(r)] - QtyOf(r)

\* C14: mutual exclusion on a product row and no lost update.
C14_MutualExclusion == []C14_State /\ [][C14_Step]_vars

\* C14 witness: after one purchase of a product committed, the next purchase
\* of the same product holds the row lock, having read the stock the first
\* one left.
C14_Witness ==
    \E r1 \in Reqs, r2 \in Reqs :
        /\ r1 # r2
        /\ ProductId(r1) = ProductId(r2)
        /\ Succeeded(r1)
        /\ InCritical(r2)
        /\ lock[ProductId(r2)] = r2
        /\ prod[r2].stock = initStock[ProductId(r2)] - QtyOf(r1)

\* position of the last of the first n Order rows that is of product p, 0 if
\* there is none
RECURSIVE LastOrderOf(_, _)
LastOrderOf(p, n) ==
    IF n = 0 THEN 0
    ELSE IF orders[n].product_id = p THEN n ELSE LastOrderOf(p, n - 1)

\* remainingStock in the answer to the purchase that committed Order row i
Reported(i) == resp[orders[i].req].remainingStock

\* the stock left by the Order rows of product p before row i
LeftBefore(p, i) ==
    IF LastOrderOf(p, i - 1) = 0 THEN initStock[p] ELSE Reported(LastOrderOf(p, i - 1))

\* C15: taking the successful purchases of a product in commit order, each
\* reported remainingStock is the one reported before it (the initial stock
\* for the first) minus its own quantity, hence strictly less, and the last
\* reported value is the stored stock.
C15_CommitOrder ==
    /\ \A i \in 1..Len(orders) :
          /\ Succeeded(orders[i].req)
          /\ Reported(i) = LeftBefore(orders[i].product_id, i) - orders[i].quantity
          /\ Reported(i) < LeftBefore(orders[i].product_id, i)
    /\ \A p \in Products :
          stock[p] = LeftBefore(p, Len(orders) + 1)

\* C15 witness: two purchases of the same product have committed one after
\* the other and the stock is what the second reported.
C15_Witness ==
    /\ Len(orders) = 2
    /\ orders[1].product_id = orders[2].product_id
    /\ Reported(2) = Reported(1) - orders[2].quantity
    /\ stock[orders[2].product_id] = Reported(2)

\* the purchases that hold a pooled client
Holders == {r \in Reqs : client[r] = "held"}

\* C19: a purchase that obtained a client has released it when its handler
\* has ended, on every path (400 of the field check, 404, 400 of the stock
\* check, 201, store fault with or without a response); a released client
\* has no open transaction and holds no row lock; and the pool counts as in
\* use exactly the clients that are held, so each was released once.
C19_ClientReleasedOnce ==
    /\ \A r \in Reqs :
          /\ client[r] = "held" => pc[r] \notin {"idle", "connect", "done"}
          /\ (pc[r] = "done" /\ fault[r] # "refused") => client[r] = "released"
          /\ client[r] = "released"
             => /\ pc[r] = "done"
                /\ tx[r] = NoTx
                /\ \A p \in Products : lock[p] # r
    /\ inUse = Cardinality(Holders)

\* C19 witness: a purchase that had locked the product row met a store fault
\* and has released its client after the 500.
C19_Witness ==
    \E r \in Reqs :
        /\ client[r] = "released"
        /\ prod[r] # NoRow
        /\ resp[r] = PurchaseFailedResponse

\* no other purchase of the product of r holds a pooled client (and so none
\* has a transaction or a row lock)
NoSameProductHolder(r) ==
    \A r2 \in Reqs \ {r} : ProductId(r2) = ProductId(r) => client[r2] # "held"

\* C16 (the claim as stated): a purchase is never made to wait on a resource
\* held by purchases of other products: whenever no other purchase of its
\* own product holds a client, its pool.connect(), its locking read and its
\* UPDATE can complete.
C16_NoCrossProductWaiting ==
    \A r \in Reqs :
        NoSameProductHolder(r)
        => /\ pc[r] = "connect" => ENABLED Connect(r)
           /\ pc[r] = "SELECT" => ENABLED Select(r)
           /\ pc[r] = "UPDATE" => ENABLED Update(r)

\* C16 as amended: a purchase never waits on a row lock held by a purchase of
\* another product: its locking read and its UPDATE can complete whenever no
\* other purchase of its own product holds a client; its pool.connect() can
\* complete whenever fewer than PoolMax clients are checked out, and
\* otherwise waits, whichever products the holders are buying.
C16_NoCrossProductLockWaiting ==
    \A r \in Reqs :
        /\ (pc[r] = "SELECT" /\ NoSameProductHolder(r)) => ENABLED Select(r)
        /\ (pc[r] = "UPDATE" /\ NoSameProductHolder(r)) => ENABLED Update(r)
        /\ (pc[r] = "connect" /\ inUse < PoolMax) => ENABLED Connect(r)
        /\ (pc[r] = "connect" /\ inUse >= PoolMax) => ~ENABLED Connect(r)

\* C16 witness: a purchase of one product completes its locking read while a
\* purchase of the other product holds that product's row lock and a third
\* purchase waits for a client.
C16_Witness ==
    \E r1 \in Reqs, r2 \in Reqs, r3 \in Reqs :
        /\ ProductId(r1) # ProductId(r2)
        /\ lock[ProductId(r1)] = r1
        /\ lock[ProductId(r2)] = r2
        /\ pc[r3] = "connect"
        /\ inUse = PoolMax

\* every purchase has been answered and has given back its row lock and its
\* client
AllComplete ==
    /\ \A r \in Reqs :
          /\ pc[r] = "done"
          /\ Answered(r)
          /\ client[r] = "released"
          /\ tx[r] = NoTx
    /\ \A p \in Products : lock[p] = 0
    /\ inUse = 0

\* C20: with more concurrent purchases than the pool has clients, of the same
\* or of different products, fair scheduling and no store fault, eventually
\* every purchase has been answered and every row lock and client has been
\* given back, for good.
C20_PurchasesComplete == <>[]AllComplete

\* C20 witness: the pool is exhausted with a purchase waiting for a client,
\* while one of the purchases that hold a client waits for the row lock that
\* another one holds.
C20_Witness ==
    \E r1 \in Reqs, r2 \in Reqs, r3 \in Reqs :
        /\ pc[r1] = "connect" /\ inUse = PoolMax
        /\ pc[r2] = "SELECT" /\ RowLockedByOther(ProductId(r2), r2)
        /\ lock[ProductId(r2)] = r3
====
